---------------------------- MODULE Spec2Model ----------------------------
(***************************************************************************)
(* A model of the MIPS assembler / emulator in                             *)
(* src/mips_assembler/src/main.rs.                                         *)
(*                                                                         *)
(* A u32 is the pair <<h, l>> of its two 16-bit halves (h the upper one):  *)
(* the values of the program (0x8123456c, 0xffff0004, ...) do not fit the  *)
(* integers of the model checker, and the width matters.  An i32 is the    *)
(* same pair read in two's complement.                                     *)
(* A string is the sequence of its (one-character) strings.                *)
(***************************************************************************)
EXTENDS Integers, Sequences, FiniteSets, TLC

(***************************************************************************)
(* u32 / i32 arithmetic                                                    *)
(***************************************************************************)
\* 2^16: the weight of the upper half of a u32
H16 == 256 * 256

Zero32 == <<0, 0>>
\* a small natural (< 2^31) as a u32
Nat32(n) == <<(n \div H16) % H16, n % H16>>
\* the low 31 bits' worth of a u32 known to be small (h < 2^15)
ToNat(w) == w[1] * H16 + w[2]

RECURSIVE BitAnd(_, _)
BitAnd(a, b) ==
    IF a = 0 \/ b = 0 THEN 0
    ELSE (a % 2) * (b % 2) + 2 * BitAnd(a \div 2, b \div 2)

RECURSIVE BitOr(_, _)
BitOr(a, b) ==
    IF a = 0 THEN b
    ELSE IF b = 0 THEN a
    ELSE (IF a % 2 = 1 \/ b % 2 = 1 THEN 1 ELSE 0) + 2 * BitOr(a \div 2, b \div 2)

And32(a, b) == <<BitAnd(a[1], b[1]), BitAnd(a[2], b[2])>>
Or32(a, b) == <<BitOr(a[1], b[1]), BitOr(a[2], b[2])>>

\* 2^n for n in 0..16
Pow2(n) == <<1, 2, 4, 8, 16, 32, 64, 128, 256, 512, 1024, 2048, 4096, 8192, 16384,
             32768, 65536>>[n + 1]

\* w << n on u32, n in 0..31 (bits shifted out are lost)
Shl32(w, n) ==
    IF n >= 16 THEN <<(w[2] % Pow2(32 - n)) * Pow2(n - 16), 0>>
    ELSE <<(w[1] % Pow2(16 - n)) * Pow2(n) + w[2] \div Pow2(16 - n),
           (w[2] % Pow2(16 - n)) * Pow2(n)>>

\* w >> n on u32 (logical), n in 0..31
Shr32(w, n) ==
    IF n >= 16 THEN <<0, w[1] \div Pow2(n - 16)>>
    ELSE <<w[1] \div Pow2(n), (w[1] % Pow2(n)) * Pow2(16 - n) + w[2] \div Pow2(n)>>

\* a + b without reduction: the carry out of bit 31 is AddCarry
AddCarry(a, b) == (a[1] + b[1] + (a[2] + b[2]) \div H16) \div H16
wrapping_add(a, b) ==
    <<(a[1] + b[1] + (a[2] + b[2]) \div H16) % H16, (a[2] + b[2]) % H16>>
Not32(a) == <<H16 - 1 - a[1], H16 - 1 - a[2]>>
Neg32(a) == wrapping_add(Not32(a), <<0, 1>>)
wrapping_sub(a, b) == wrapping_add(a, Neg32(b))

\* unsigned and signed order
LtU(a, b) == a[1] < b[1] \/ (a[1] = b[1] /\ a[2] < b[2])
LeU(a, b) == a = b \/ LtU(a, b)
IsNeg(a) == a[1] >= 32768
LtS(a, b) ==
    IF IsNeg(a) # IsNeg(b) THEN IsNeg(a) ELSE LtU(a, b)

\* i32 addition overflows iff the operands agree in sign and the sum does not
AddOverflowsI32(a, b) ==
    IsNeg(a) = IsNeg(b) /\ IsNeg(wrapping_add(a, b)) # IsNeg(a)
\* u32 addition overflows iff it carries out
AddOverflowsU32(a, b) == AddCarry(a, b) > 0

\* (x as i16) as i32 of the low 16 bits of a u32: sign extension
SignExt16(w) == IF w[2] >= 32768 THEN <<H16 - 1, w[2]>> ELSE <<0, w[2]>>

\* the four bytes of a u32, least significant first
Bytes32(w) == <<w[2] % 256, w[2] \div 256, w[1] % 256, w[1] \div 256>>

\* schoolbook product of two u32 given by their bytes x and y: the term of byte j of x
\* in column k (0-based), and the sum of the terms of column k
Term(x, y, k, j) == IF k - j + 2 \in 1..4 THEN x[j] * y[k - j + 2] ELSE 0
ColumnSum(x, y, k) == Term(x, y, k, 1) + Term(x, y, k, 2) + Term(x, y, k, 3) + Term(x, y, k, 4)

RECURSIVE MulColumns(_, _, _, _)
\* the bytes of the u64 product from column k on, least significant first; total is
\* the sum of column k and of the carry of column k - 1
MulColumns(x, y, k, total) ==
    IF k = 8 THEN <<>>
    ELSE <<total % 256>> \o MulColumns(x, y, k + 1, ColumnSum(x, y, k + 1) + total \div 256)

\* the u64 of 8 bytes as the pair <<upper u32, lower u32>>
Pack64(c) ==
    << <<c[8] * 256 + c[7], c[6] * 256 + c[5]>>, <<c[4] * 256 + c[3], c[2] * 256 + c[1]>> >>
ProductOfBytes(x, y) == Pack64(MulColumns(x, y, 0, ColumnSum(x, y, 0)))
\* (a as u64) * (b as u64): the pair <<upper u32, lower u32>> of the u64 product
MulU64(a, b) == ProductOfBytes(Bytes32(a), Bytes32(b))

\* a - b for a >= b, a's upper half possibly above 2^16
SubRaw(a, b) ==
    IF a[2] < b[2] THEN <<a[1] - b[1] - 1, a[2] - b[2] + H16>>
    ELSE <<a[1] - b[1], a[2] - b[2]>>

\* w * 2 + bit, reduced to 32 bits
Double32(w, bit) == <<(w[1] * 2 + w[2] \div 32768) % H16, ((w[2] * 2) % H16) + bit>>

RECURSIVE DivSteps(_, _)
\* one step of the division by d once the next bit is brought down into r2
DivStep(d, st, r2, fits) ==
    DivSteps(d, << st[1] - 1, Double32(st[2], 0), Double32(st[3], IF fits THEN 1 ELSE 0),
                   IF fits THEN SubRaw(r2, d) ELSE r2 >>)
DivBring(d, st, r2) == DivStep(d, st, r2, ~LtU(r2, d))
\* binary long division by d: st = <<the number of bits left to bring down, what is
\* left of the dividend (its next bit on top), the quotient so far, the remainder so far>>
DivSteps(d, st) ==
    IF st[1] = 0 THEN [q |-> st[3], r |-> st[4]]
    ELSE DivBring(d, st, <<st[4][1] * 2 + st[4][2] \div 32768,
                           ((st[4][2] * 2) % H16) + st[2][1] \div 32768>>)

\* n / d and n % d on u32, d # 0
DivU(n, d) == DivSteps(d, <<32, n, Zero32, Zero32>>).q
RemU(n, d) == DivSteps(d, <<32, n, Zero32, Zero32>>).r

Abs32(a) == IF IsNeg(a) THEN Neg32(a) ELSE a
WithSign(negative, magnitude) == IF negative THEN Neg32(magnitude) ELSE magnitude
\* n / d and n % d on i32 (truncating, the remainder with the sign of n), d # 0 and
\* not i32::MIN / -1
DivS(n, d) == WithSign(IsNeg(n) # IsNeg(d), DivU(Abs32(n), Abs32(d)))
RemS(n, d) == WithSign(IsNeg(n), RemU(Abs32(n), Abs32(d)))

(***************************************************************************)
(* Value and Instruction (enum Value, enum Instruction)                    *)
(***************************************************************************)
Literal(v) == [tag |-> "Literal", val |-> v]
Label(s) == [tag |-> "Label", name |-> s]

\* the outcome of a computation that may panic
Ok(v) == [ok |-> v]
Panic(msg) == [panic |-> msg]
IsOk(r) == "ok" \in DOMAIN r

to_u32(v) ==
    IF v.tag = "Literal" THEN Ok(v.val)
    ELSE Panic("Can't convert label to u32")

Noop == [op |-> "Noop"]
Add(d, s, t) == [op |-> "Add", d |-> d, s |-> s, t |-> t]
Sub(d, s, t) == [op |-> "Sub", d |-> d, s |-> s, t |-> t]
Slt(d, s, t) == [op |-> "Slt", d |-> d, s |-> s, t |-> t]
Sltu(d, s, t) == [op |-> "Sltu", d |-> d, s |-> s, t |-> t]
Mult(s, t) == [op |-> "Mult", s |-> s, t |-> t]
Multu(s, t) == [op |-> "Multu", s |-> s, t |-> t]
Div(s, t) == [op |-> "Div", s |-> s, t |-> t]
Divu(s, t) == [op |-> "Divu", s |-> s, t |-> t]
Mfhi(d) == [op |-> "Mfhi", d |-> d]
Mflo(d) == [op |-> "Mflo", d |-> d]
Lis(d) == [op |-> "Lis", d |-> d]
Lw(t, i, s) == [op |-> "Lw", t |-> t, i |-> i, s |-> s]
Sw(t, i, s) == [op |-> "Sw", t |-> t, i |-> i, s |-> s]
Beq(s, t, i) == [op |-> "Beq", s |-> s, t |-> t, i |-> i]
Bne(s, t, i) == [op |-> "Bne", s |-> s, t |-> t, i |-> i]
Jr(s) == [op |-> "Jr", s |-> s]
Jalr(s) == [op |-> "Jalr", s |-> s]
Word(i) == [op |-> "Word", i |-> i]

\* std_word with the d field one bit too low
std_word_shift10(s, t, d, opcode) ==
    Or32(Or32(Shl32(Nat32(s), 21), Shl32(Nat32(t), 16)),
         Or32(Shl32(Nat32(d), 10), Nat32(opcode)))
\* ((s as u32) << 21) | ((t as u32) << 16) | ((d as u32) << 11) | (opcode as u32)
\* s, t, d are u8, opcode is u16: nothing is masked
std_word(s, t, d, opcode) ==
    Or32(Or32(Shl32(Nat32(s), 21), Shl32(Nat32(t), 16)),
         Or32(Shl32(Nat32(d), 11), Nat32(opcode)))

\* ((opcode as u32) << 26) | ((s as u32) << 21) | ((t as u32) << 16) | (i & 0xFFFF)
sti_word(opcode, s, t, i) ==
    Or32(Or32(Shl32(Nat32(opcode), 26), Shl32(Nat32(s), 21)),
         Or32(Shl32(Nat32(t), 16), And32(i, <<0, H16 - 1>>)))

\* sti_word applied to an operand that must be a literal
sti_value(opcode, s, t, v) ==
    IF IsOk(to_u32(v)) THEN Ok(sti_word(opcode, s, t, to_u32(v).ok))
    ELSE to_u32(v)

\* Instruction::assemble
Instruction_assemble(x) ==
    CASE x.op = "Add" -> Ok(std_word(x.s, x.t, x.d, 32))
      [] x.op = "Sub" -> Ok(std_word(x.s, x.t, x.d, 34))
      [] x.op = "Slt" -> Ok(std_word(x.s, x.t, x.d, 42))
      [] x.op = "Sltu" -> Ok(std_word(x.s, x.t, x.d, 43))
      [] x.op = "Mult" -> Ok(std_word(x.s, x.t, 0, 24))
      [] x.op = "Multu" -> Ok(std_word(x.s, x.t, 0, 25))
      [] x.op = "Div" -> Ok(std_word(x.s, x.t, 0, 26))
      [] x.op = "Divu" -> Ok(std_word(x.s, x.t, 0, 27))
      [] x.op = "Mfhi" -> Ok(std_word(0, 0, x.d, 16))
      [] x.op = "Mflo" -> Ok(std_word(0, 0, x.d, 18))
      [] x.op = "Lis" -> Ok(std_word(0, 0, x.d, 20))
      [] x.op = "Lw" -> sti_value(35, x.s, x.t, x.i)
      [] x.op = "Sw" -> sti_value(43, x.s, x.t, x.i)
      [] x.op = "Beq" -> sti_value(4, x.s, x.t, x.i)
      [] x.op = "Bne" -> sti_value(5, x.s, x.t, x.i)
      [] x.op = "Jr" -> Ok(sti_word(0, x.s, 0, <<0, 8>>))
      [] x.op = "Jalr" -> Ok(sti_word(0, x.s, 0, <<0, 9>>))
      [] x.op = "Word" -> to_u32(x.i)
      [] OTHER -> Panic("unreachable")

\* the match of Instruction::disassemble on the fields of the word
Decode(word, first_opcode, second_opcode, s, t, d, i) ==
    CASE first_opcode = 35 -> Lw(t, i, s)
      [] first_opcode = 43 -> Sw(t, i, s)
      [] first_opcode = 4 -> Beq(s, t, i)
      [] first_opcode = 5 -> Bne(s, t, i)
      [] first_opcode = 0 ->
            (CASE second_opcode = 32 -> Add(d, s, t)
               [] second_opcode = 34 -> Sub(d, s, t)
               [] second_opcode = 24 -> Mult(s, t)
               [] second_opcode = 25 -> Multu(s, t)
               [] second_opcode = 26 -> Div(s, t)
               [] second_opcode = 27 -> Divu(s, t)
               [] second_opcode = 16 -> Mfhi(d)
               [] second_opcode = 18 -> Mflo(d)
               [] second_opcode = 20 -> Lis(d)
               [] second_opcode = 42 -> Slt(d, s, t)
               [] second_opcode = 43 -> Sltu(d, s, t)
               [] second_opcode = 8 -> Jr(s)
               [] second_opcode = 9 -> Jalr(s)
               [] OTHER -> Word(Literal(word)))
      [] OTHER -> Word(Literal(word))

\* Instruction::disassemble
disassemble(word) ==
    Decode(word, Shr32(word, 26)[2], BitAnd(word[2], 63),
           BitAnd(Shr32(word, 21)[2], 31), BitAnd(Shr32(word, 16)[2], 31),
           BitAnd(Shr32(word, 11)[2], 31), Literal(And32(word, <<0, H16 - 1>>)))

(***************************************************************************)
(* Strings: characters, str::parse, from_str_radix, trim, find, split      *)
(***************************************************************************)
DecDigits == <<"0", "1", "2", "3", "4", "5", "6", "7", "8", "9">>
LowerHex == <<"a", "b", "c", "d", "e", "f">>
UpperHex == <<"A", "B", "C", "D", "E", "F">>
LowerAlpha == {"a", "b", "c", "d", "e", "f", "g", "h", "i", "j", "k", "l", "m", "n", "o", "p", "q", "r", "s", "t", "u", "v", "w", "x", "y", "z"}
UpperAlpha == {"A", "B", "C", "D", "E", "F", "G", "H", "I", "J", "K", "L", "M", "N", "O", "P", "Q", "R", "S", "T", "U", "V", "W", "X", "Y", "Z"}

IsDigit(c) == \E k \in 1..10 : DecDigits[k] = c
IsAlpha(c) == c \in LowerAlpha \/ c \in UpperAlpha
IsAlnum(c) == IsAlpha(c) \/ IsDigit(c)

\* char::to_digit(radix) for radix 10 and 16: -1 when c is no digit
ToDigit(c, radix) ==
    IF \E k \in 1..10 : DecDigits[k] = c
    THEN (CHOOSE k \in 1..10 : DecDigits[k] = c) - 1
    ELSE IF radix = 16 /\ \E k \in 1..6 : LowerHex[k] = c
    THEN (CHOOSE k \in 1..6 : LowerHex[k] = c) + 9
    ELSE IF radix = 16 /\ \E k \in 1..6 : UpperHex[k] = c
    THEN (CHOOSE k \in 1..6 : UpperHex[k] = c) + 9
    ELSE 0 - 1

Err(kind) == [err |-> kind]

RECURSIVE AccDigits(_, _, _, _)
\* the digits of str from position k on, accumulated into acc as a u32 magnitude
\* (checked_mul by the radix, checked_add of the digit)
AccDigits(str, k, radix, acc) ==
    IF k > Len(str) THEN Ok(acc)
    ELSE IF ToDigit(str[k], radix) < 0 THEN Err("InvalidDigit")
    ELSE LET lo == acc[2] * radix + ToDigit(str[k], radix)
             hi == acc[1] * radix + lo \div H16
         IN  IF hi >= H16 THEN Err("Overflow")
             ELSE AccDigits(str, k + 1, radix, <<hi, lo % H16>>)

\* u32::from_str_radix: an optional '+', then at least one digit
u32_from_str_radix(str, radix) ==
    IF str = <<>> THEN Err("Empty")
    ELSE IF str = <<"+">> \/ str = <<"-">> THEN Err("InvalidDigit")
    ELSE AccDigits(str, IF str[1] = "+" THEN 2 ELSE 1, radix, Zero32)

\* the u32 that was parsed, narrowed to the u8 that was asked for
NarrowToU8(r) ==
    IF ~IsOk(r) THEN r
    ELSE IF r.ok[1] > 0 \/ r.ok[2] > 255 THEN Err("Overflow")
    ELSE Ok(r.ok[2])
\* str::parse::<u8>
u8_from_str(str) == NarrowToU8(u32_from_str_radix(str, 10))

\* the magnitude that was parsed, as the i32 of that sign (the u32 of the same bits)
Signed(negative, r) ==
    IF ~IsOk(r) THEN r
    ELSE IF negative
    THEN IF LtU(<<32768, 0>>, r.ok) THEN Err("Overflow") ELSE Ok(Neg32(r.ok))
    ELSE IF r.ok[1] >= 32768 THEN Err("Overflow") ELSE r
\* str::parse::<i32>, the result as the u32 of the same bits
i32_from_str(str) ==
    IF str = <<>> THEN Err("Empty")
    ELSE IF str = <<"+">> \/ str = <<"-">> THEN Err("InvalidDigit")
    ELSE Signed(str[1] = "-",
                AccDigits(str, IF str[1] = "+" \/ str[1] = "-" THEN 2 ELSE 1, 10, Zero32))


RECURSIVE TrimStart(_)
TrimStart(str) ==
    IF str # <<>> /\ str[1] = " " THEN TrimStart(Tail(str)) ELSE str
RECURSIVE TrimEnd(_)
TrimEnd(str) ==
    IF str # <<>> /\ str[Len(str)] = " "
    THEN TrimEnd(SubSeq(str, 1, Len(str) - 1)) ELSE str
\* str::trim
Trim(str) == TrimEnd(TrimStart(str))

\* str::find(c): the 0-based index of the first c, Len(str) standing for None
Find(str, c) ==
    IF \E k \in 1..Len(str) : str[k] = c
    THEN (CHOOSE k \in 1..Len(str) : str[k] = c /\ \A j \in 1..(k - 1) : str[j] # c) - 1
    ELSE Len(str)
\* str::rfind(c).map(|x| x + 1).unwrap_or(0)
RFindPlus1(str, c) ==
    IF \E k \in 1..Len(str) : str[k] = c
    THEN CHOOSE k \in 1..Len(str) : str[k] = c /\ \A j \in (k + 1)..Len(str) : str[j] # c
    ELSE 0

IsSeparator(c) == c \in {" ", ",", "(", ")"}
RECURSIVE SplitFrom(_, _, _)
\* str.split([' ', ',', '(', ')']): the pieces from position k on, cur being the piece so far
SplitFrom(str, k, cur) ==
    IF k > Len(str) THEN <<cur>>
    ELSE IF IsSeparator(str[k]) THEN <<cur>> \o SplitFrom(str, k + 1, <<>>)
    ELSE SplitFrom(str, k + 1, Append(cur, str[k]))
\* .map(|s| s.trim()).filter(|s| !s.is_empty()).collect()
NonEmpty(pieces) == SelectSeq(pieces, LAMBDA piece : piece # <<>>)
TrimAll(pieces) == [k \in 1..Len(pieces) |-> Trim(pieces[k])]
Tokens(str) == NonEmpty(TrimAll(SplitFrom(str, 1, <<>>)))

(***************************************************************************)
(* The parser: parse_value, parse_instruction, parse_line, parse_lines     *)
(***************************************************************************)
\* ((1_u64 << bits) - 1) as u32, for bits 16 and 32
Mask(bits) == IF bits = 16 THEN <<0, H16 - 1>> ELSE <<H16 - 1, H16 - 1>>

\* Value::Literal(num & mask)
Masked(num, bits) == Ok(Literal(And32(num, Mask(bits))))

\* parse_value from its third test on: u32::from_str_radix(&value[2..], 16), else a label
ParseHex(value, bits, r) ==
    IF IsOk(r) THEN Masked(r.ok, bits) ELSE Ok(Label(value))
\* parse_value from its second test on: value.parse::<i32>(); then &value[2..], which
\* panics when value is shorter than 2 bytes
ParseSigned(value, bits, r) ==
    IF IsOk(r) THEN Masked(r.ok, bits)
    ELSE IF Len(value) < 2 THEN Panic("byte index 2 is out of bounds")
    ELSE ParseHex(value, bits, u32_from_str_radix(SubSeq(value, 3, Len(value)), 16))
\* parse_value from its first test on: value.parse::<u32>()
ParseUnsigned(value, bits, r) ==
    IF IsOk(r) THEN Masked(r.ok, bits) ELSE ParseSigned(value, bits, i32_from_str(value))
parse_value(value, bits) == ParseUnsigned(value, bits, u32_from_str_radix(value, 10))

\* .unwrap() of the register number
Unwrap(r) == IF IsOk(r) THEN r ELSE Panic("called Result::unwrap() on an Err value")
\* tokens[k][1..].parse().unwrap() with a u8 target (k is the 0-based index)
Register(tokens, k) ==
    IF Len(tokens) < k + 1 THEN Panic("index out of bounds")
    ELSE Unwrap(u8_from_str(Tail(tokens[k + 1])))

\* parse_value(tokens[k], bits)
Operand(tokens, k, bits) ==
    IF Len(tokens) < k + 1 THEN Panic("index out of bounds")
    ELSE parse_value(tokens[k + 1], bits)

\* the fields of a variant are evaluated in the order written: the first panic wins
Build1(a, make(_)) == IF IsOk(a) THEN Ok(make(a.ok)) ELSE a
Build2(a, b, make(_, _)) ==
    IF ~IsOk(a) THEN a ELSE IF ~IsOk(b) THEN b ELSE Ok(make(a.ok, b.ok))
Build3(a, b, c, make(_, _, _)) ==
    IF ~IsOk(a) THEN a ELSE IF ~IsOk(b) THEN b ELSE IF ~IsOk(c) THEN c
    ELSE Ok(make(a.ok, b.ok, c.ok))


\* the match of parse_instruction on the mnemonic.  r1, r2, r3 are the registers read
\* from tokens[1], tokens[2], tokens[3]; v2, v3 the 16-bit operands read from tokens[2],
\* tokens[3]; w1 the 32-bit operand read from tokens[1].  An arm evaluates only what it
\* names.
MatchMnemonic(mnemonic, r1, r2, r3, v2, v3, w1) ==
    CASE mnemonic = <<"a", "d", "d">> -> Build3(r1, r2, r3, Add)
      [] mnemonic = <<"s", "u", "b">> -> Build3(r1, r2, r3, Sub)
      [] mnemonic = <<"s", "l", "t">> -> Build3(r1, r2, r3, Slt)
      [] mnemonic = <<"s", "l", "t", "u">> -> Build3(r1, r2, r3, Sltu)
      [] mnemonic = <<"m", "u", "l", "t">> -> Build2(r1, r2, Mult)
      [] mnemonic = <<"m", "u", "l", "t", "u">> -> Build2(r1, r2, Multu)
      [] mnemonic = <<"d", "i", "v">> -> Build2(r1, r2, Div)
      [] mnemonic = <<"d", "i", "v", "u">> -> Build2(r1, r2, Divu)
      [] mnemonic = <<"m", "f", "h", "i">> -> Build1(r1, Mfhi)
      [] mnemonic = <<"m", "f", "l", "o">> -> Build1(r1, Mflo)
      [] mnemonic = <<"l", "i", "s">> -> Build1(r1, Lis)
      [] mnemonic = <<"l", "w">> -> Build3(r1, v2, r3, Lw)
      [] mnemonic = <<"s", "w">> -> Build3(r1, v2, r3, Sw)
      [] mnemonic = <<"b", "e", "q">> -> Build3(r1, r2, v3, Beq)
      [] mnemonic = <<"b", "n", "e">> -> Build3(r1, r2, v3, Bne)
      [] mnemonic = <<"j", "r">> -> Build1(r1, Jr)
      [] mnemonic = <<"j", "a", "l", "r">> -> Build1(r1, Jalr)
      [] mnemonic = <<".", "w", "o", "r", "d">> -> Build1(w1, Word)
      [] OTHER -> Panic("Unrecognized instruction opcode")

ParseTokens(tokens) ==
    IF tokens = <<>> THEN Ok(Noop)
    ELSE MatchMnemonic(tokens[1], Register(tokens, 1), Register(tokens, 2),
                       Register(tokens, 3), Operand(tokens, 2, 16), Operand(tokens, 3, 16),
                       Operand(tokens, 1, 32))
parse_instruction(instruction) == ParseTokens(Tokens(instruction))

RECURSIVE FindLabels(_, _)
RECURSIVE AlnumEnd(_, _)
\* the last position of the run of alphanumerics that starts at position k
AlnumEnd(str, k) ==
    IF k + 1 <= Len(str) /\ IsAlnum(str[k + 1]) THEN AlnumEnd(str, k + 1) ELSE k

\* a letter at position k, its run of alphanumerics ending at position e
MatchAt(str, k, e) ==
    IF e + 1 <= Len(str) /\ str[e + 1] = ":"
    THEN <<SubSeq(str, k, e + 1)>> \o FindLabels(str, e + 2)
    ELSE FindLabels(str, k + 1)
\* LABELS_RE.find_iter(str) from position k on: the leftmost, non-overlapping
\* matches of [a-zA-Z][a-zA-Z0-9]*:
FindLabels(str, k) ==
    IF k > Len(str) THEN <<>>
    ELSE IF IsAlpha(str[k]) THEN MatchAt(str, k, AlnumEnd(str, k))
    ELSE FindLabels(str, k + 1)

\* Line { text, labels, instruction }
MakeLine(text, labels, parsed) ==
    IF IsOk(parsed) THEN Ok([text |-> text, labels |-> labels, instruction |-> parsed.ok])
    ELSE parsed
\* parse_line once the last colon of the code is found
SplitAtColon(original_line, code, last_colon_index) ==
    MakeLine(original_line,
             FindLabels(Trim(SubSeq(code, 1, last_colon_index)), 1),
             parse_instruction(Trim(SubSeq(code, last_colon_index + 1, Len(code)))))
\* parse_line once the comment is cut off
ParseCode(original_line, code) == SplitAtColon(original_line, code, RFindPlus1(code, ":"))
parse_line(line) == ParseCode(Trim(line), Trim(SubSeq(line, 1, Find(line, ";"))))

\* the lines collected: the first line that panics aborts the collection
Collect(rs) ==
    IF \E k \in 1..Len(rs) : ~IsOk(rs[k])
    THEN rs[CHOOSE k \in 1..Len(rs) : ~IsOk(rs[k]) /\ \A j \in 1..(k - 1) : IsOk(rs[j])]
    ELSE Ok([k \in 1..Len(rs) |-> rs[k].ok])
\* lines.flatten().map(parse_line).collect()
parse_lines(src) == Collect([k \in 1..Len(src) |-> parse_line(src[k])])

(***************************************************************************)
(* The symbol resolver: extract_label_locations, replace_labels, assemble  *)
(***************************************************************************)
\* a HashMap is the function from its keys to their values
EmptyMap == [key \in {} |-> Zero32]
\* HashMap::insert
Insert(map, key, value) ==
    [x \in DOMAIN map \cup {key} |-> IF x = key THEN value ELSE map[x]]

RECURSIVE InsertLabelsUnchecked(_, _, _)
\* the label loop without the contains_key test: a later definition overwrites
InsertLabelsUnchecked(labels, addr, result) ==
    IF labels = <<>> THEN Ok(result)
    ELSE InsertLabelsUnchecked(Tail(labels), addr,
            Insert(result, SubSeq(labels[1], 1, Len(labels[1]) - 1), addr))

RECURSIVE InsertLabels(_, _, _)
\* for label in &line.labels: strip the colon, panic on a known key, insert at addr
InsertLabels(labels, addr, result) ==
    IF labels = <<>> THEN Ok(result)
    ELSE IF SubSeq(labels[1], 1, Len(labels[1]) - 1) \in DOMAIN result
    THEN Panic("Duplicate label")
    ELSE InsertLabels(Tail(labels), addr,
            Insert(result, SubSeq(labels[1], 1, Len(labels[1]) - 1), addr))

\* addr advanced for every line, the test for Noop forgotten
NextAddrAlways(line, addr) == wrapping_add(addr, <<0, 4>>)
\* if line.instruction != Instruction::Noop { addr += 4; }
NextAddr(line, addr) ==
    IF line.instruction # Noop THEN wrapping_add(addr, <<0, 4>>) ELSE addr

RECURSIVE ExtractFrom(_, _, _)
\* the rest of the loop once the labels of the first line of lns are inserted
ExtractNext(lns, addr, inserted) ==
    IF ~IsOk(inserted) THEN inserted
    ELSE ExtractFrom(Tail(lns), NextAddr(lns[1], addr), inserted.ok)
\* the loop of extract_label_locations over the lines from the first of lns on
ExtractFrom(lns, addr, result) ==
    IF lns = <<>> THEN Ok(result)
    ELSE ExtractNext(lns, addr, InsertLabels(lns[1].labels, addr, result))

extract_label_locations(lns) == ExtractFrom(lns, Zero32, EmptyMap)

\* labels.get(label).unwrap_or_else(|| panic!("Undefined label {label}"))
Lookup(labels, label) ==
    IF label \in DOMAIN labels THEN Ok(labels[label]) ELSE Panic("Undefined label")

\* (((label_value as i32) - (addr as i32)) / 4) as u32 & 0xFFFF
BranchOffset(label_value, addr) ==
    And32(DivS(wrapping_sub(label_value, addr), <<0, 4>>), <<0, H16 - 1>>)

\* an arm of replace_labels whose operand is a label, once the label is looked up
ReplaceLabel(x, addr, found) ==
    IF ~IsOk(found) THEN found
    ELSE CASE x.op = "Lw" -> Ok(Lw(x.t, Literal(found.ok), x.s))
           [] x.op = "Sw" -> Ok(Sw(x.t, Literal(found.ok), x.s))
           [] x.op = "Beq" -> Ok(Beq(x.s, x.t, Literal(BranchOffset(found.ok, addr))))
           [] x.op = "Bne" -> Ok(Bne(x.s, x.t, Literal(BranchOffset(found.ok, addr))))
           [] x.op = "Word" -> Ok(Word(Literal(found.ok)))
\* the match of replace_labels on one instruction, addr already advanced
ReplaceInstruction(x, addr, labels) ==
    IF x.op \in {"Lw", "Sw", "Beq", "Bne", "Word"} /\ x.i.tag = "Label"
    THEN ReplaceLabel(x, addr, Lookup(labels, x.i.name))
    ELSE Ok(x)

RECURSIVE ReplaceFrom(_, _, _, _)
\* the rest of the loop once the instruction of the first line of lns is replaced
ReplaceNext(lns, addr, labels, result, new_instruction) ==
    IF ~IsOk(new_instruction) THEN new_instruction
    ELSE ReplaceFrom(Tail(lns), addr, labels,
            IF new_instruction.ok # Noop
            THEN Append(result, [text |-> lns[1].text, labels |-> <<>>,
                                 instruction |-> new_instruction.ok])
            ELSE result)
\* the first line of lns, addr advanced past it
ReplaceAt(lns, addr, labels, result) ==
    ReplaceNext(lns, addr, labels, result, ReplaceInstruction(lns[1].instruction, addr, labels))
\* the loop of replace_labels over the lines from the first of lns on
ReplaceFrom(lns, addr, labels, result) ==
    IF lns = <<>> THEN Ok(result)
    ELSE ReplaceAt(lns, NextAddr(lns[1], addr), labels, result)

replace_labels(lns, labels) == ReplaceFrom(lns, Zero32, labels, <<>>)

\* the words collected: the first instruction that panics aborts the collection
CollectWords(rs) ==
    IF \E k \in 1..Len(rs) : ~IsOk(rs[k]) THEN Panic("Can't convert label to u32")
    ELSE Ok([k \in 1..Len(rs) |-> rs[k].ok])
\* fn assemble: instructions.iter().map(|line| line.instruction.assemble()).collect()
assemble(instructions) ==
    CollectWords([k \in 1..Len(instructions) |->
                    Instruction_assemble(instructions[k].instruction)])

(***************************************************************************)
(* MipsEmulator                                                            *)
(***************************************************************************)
\* 0x8123456c, the return address that ends the run
SENTINEL == <<33059, 17772>>
\* 0x100000, the stack pointer
STACK == <<16, 0>>
\* 0xffff0004 and 0xffff000c, the memory-mapped input and output
MMIO_IN == <<65535, 4>>
MMIO_OUT == <<65535, 12>>
\* 0xfffffff6, what emulate_twoints leaves in registers 3..29
FILL == <<65535, 65526>>

\* addr / 4, the key of the word in the memory map (below 2^30)
WordKey(addr) == addr[1] * 16384 + addr[2] \div 4

MipsEmulator_new(program) ==
    [memory |-> [idx \in 0..(Len(program) - 1) |-> program[idx + 1]],
     registers |-> [r \in 0..31 |->
                      IF r = 30 THEN STACK ELSE IF r = 31 THEN SENTINEL ELSE Zero32],
     lo |-> Zero32, hi |-> Zero32, pc |-> Zero32]

\* MipsEmulator::read.  The standard input is the sequence input of the bytes not yet
\* read; broken says that reading it fails.  handle.read(&mut buffer) is Ok(n), n the
\* number of bytes read, and its unwrap_or(0xFF) is n itself: 1 after a byte was read
\* (the byte is in buffer, which is dropped), 0 at the end of the input.
read(self, input, broken, addr) ==
    IF addr = MMIO_IN
    THEN IF broken THEN Ok([val |-> <<0, 255>>, input |-> input, taken |-> <<>>])
         ELSE IF input = <<>> THEN Ok([val |-> <<0, 0>>, input |-> input, taken |-> <<>>])
         ELSE Ok([val |-> <<0, 1>>, input |-> Tail(input), taken |-> <<Head(input)>>])
    ELSE IF WordKey(addr) \in DOMAIN self.memory
    THEN Ok([val |-> self.memory[WordKey(addr)], input |-> input, taken |-> <<>>])
    ELSE Panic("Reading from uninitialized memory")

\* write that also stores the word written to the output port
write_through(self, output, addr, val) ==
    [self |-> [self EXCEPT !.memory = Insert(self.memory, WordKey(addr), val)],
     output |-> IF addr = MMIO_OUT THEN Append(output, val[2] % 256) ELSE output]
\* MipsEmulator::write.  The standard output is the sequence output of the bytes written.
write(self, output, addr, val) ==
    IF addr = MMIO_OUT
    THEN [self |-> self, output |-> Append(output, val[2] % 256)]
    ELSE [self |-> [self EXCEPT !.memory = Insert(self.memory, WordKey(addr), val)],
          output |-> output]

\* one memory access of a step, for the record of what the step did
ReadEvent(addr, got) == [op |-> "read", addr |-> addr, val |-> got.val, taken |-> got.taken]
WriteEvent(addr, val) == [op |-> "write", addr |-> addr, val |-> val, taken |-> <<>>]

\* what a call of step leaves: its return value, the emulator, the standard streams,
\* and the memory accesses it made
Stepped(ret, self, input, output, log) ==
    Ok([ret |-> ret, self |-> self, input |-> input, output |-> output, log |-> log])

\* step returns true with the emulator left as self2 and nothing read or written
Done(self2, input, output, log) == Stepped(TRUE, self2, input, output, log)
\* self.registers[k] = v
SetRegister(self, k, v) == [self EXCEPT !.registers[k] = v]

\* Mult and Multu once the product is there; trap says that the multiplication is
\* one of i64 in a build that checks for overflow, which is there when bit 63 is set
ExecMul(self, input, output, log, product, trap) ==
    IF trap /\ product[1][1] >= 32768 THEN Panic("attempt to multiply with overflow")
    ELSE Done([self EXCEPT !.hi = product[1], !.lo = product[2]], input, output, log)

\* Div: s / t and s % t on i32
ExecDiv(self, input, output, log, s, t) ==
    IF t = Zero32 THEN Panic("attempt to divide by zero")
    ELSE IF s = <<32768, 0>> /\ t = <<H16 - 1, H16 - 1>>
    THEN Panic("attempt to divide with overflow")
    ELSE Done([self EXCEPT !.lo = DivS(s, t), !.hi = RemS(s, t)], input, output, log)
\* Divu: s / t and s % t on u32
ExecDivu(self, input, output, log, s, t) ==
    IF t = Zero32 THEN Panic("attempt to divide by zero")
    ELSE Done([self EXCEPT !.lo = DivU(s, t), !.hi = RemU(s, t)], input, output, log)

\* Lis once self.read(self.pc) returned got
ExecLis(d, self, output, checked, log, got) ==
    IF ~IsOk(got) THEN got
    ELSE IF checked /\ AddOverflowsU32(self.pc, <<0, 4>>)
    THEN Panic("attempt to add with overflow")
    ELSE Stepped(TRUE,
                 [self EXCEPT !.registers[d] = got.ok.val,
                              !.pc = wrapping_add(self.pc, <<0, 4>>)],
                 got.ok.input, output, Append(log, ReadEvent(self.pc, got.ok)))

\* Lw once self.read(addr) returned got
Loaded(t, self, output, log, addr, got) ==
    IF ~IsOk(got) THEN got
    ELSE Stepped(TRUE, SetRegister(self, t, got.ok.val), got.ok.input, output,
                 Append(log, ReadEvent(addr, got.ok)))
\* Lw: s and i are the base and the offset as i32, addr is (s + i) as u32
ExecLw(t, self, input, output, broken, checked, log, s, i, addr) ==
    IF checked /\ AddOverflowsI32(s, i) THEN Panic("attempt to add with overflow")
    ELSE Loaded(t, self, output, log, addr, read(self, input, broken, addr))

\* Sw once self.write(addr, val) left wrote
Stored(input, log, addr, val, wrote) ==
    Stepped(TRUE, wrote.self, input, wrote.output, Append(log, WriteEvent(addr, val)))
\* Sw: s and i are the base and the offset as i32, addr is (s + i) as u32
ExecSw(self, input, output, checked, log, s, i, addr, val) ==
    IF checked /\ AddOverflowsI32(s, i) THEN Panic("attempt to add with overflow")
    ELSE Stored(input, log, addr, val, write(self, output, addr, val))

\* self.pc = ((self.pc as i32) + 4 * i) as u32, offset being 4 * i
Branch(self, input, output, checked, log, offset) ==
    IF checked /\ AddOverflowsI32(self.pc, offset) THEN Panic("attempt to add with overflow")
    ELSE Done([self EXCEPT !.pc = wrapping_add(self.pc, offset)], input, output, log)
\* Beq and Bne: taken says that the branch is taken, i is the offset field as i32
ExecBranch(self, input, output, checked, log, taken, i) ==
    IF taken THEN Branch(self, input, output, checked, log, Shl32(i, 2))
    ELSE Done(self, input, output, log)

\* the arms of step that load, store or branch; i is (*i as i16) as i32
ExecuteImmediate(x, self, input, output, broken, checked, log, s, t, i) ==
    CASE x.op = "Lw" ->
            ExecLw(x.t, self, input, output, broken, checked, log, s, i, wrapping_add(s, i))
      [] x.op = "Sw" ->
            ExecSw(self, input, output, checked, log, s, i, wrapping_add(s, i), t)
      [] x.op = "Beq" ->
            ExecBranch(self, input, output, checked, log, x.s = x.t \/ s = t, i)
      [] x.op = "Bne" ->
            ExecBranch(self, input, output, checked, log, x.s # x.t /\ s # t, i)

\* the arms of step on two source registers, whose values are s and t
ExecuteRegisters(x, self, input, output, checked, log, s, t) ==
    CASE x.op = "Add" -> Done(SetRegister(self, x.d, wrapping_add(s, t)), input, output, log)
      [] x.op = "Sub" -> Done(SetRegister(self, x.d, wrapping_sub(s, t)), input, output, log)
      [] x.op = "Slt" ->
            Done(SetRegister(self, x.d, IF LtS(s, t) THEN <<0, 1>> ELSE Zero32),
                 input, output, log)
      [] x.op = "Sltu" ->
            Done(SetRegister(self, x.d, IF LeU(s, t) THEN <<0, 1>> ELSE Zero32),
                 input, output, log)
      [] x.op = "Mult" ->
            \* (u32 as i64) * (u32 as i64): the operands are zero-extended
            ExecMul(self, input, output, log, MulU64(s, t), checked)
      [] x.op = "Multu" -> ExecMul(self, input, output, log, MulU64(s, t), FALSE)
      [] x.op = "Div" -> ExecDiv(self, input, output, log, s, t)
      [] x.op = "Divu" -> ExecDivu(self, input, output, log, s, t)

\* the match of step on the decoded instruction.  self.pc is already advanced; checked
\* says that the build panics on integer overflow (debug) instead of wrapping (release).
execute(x, self, input, output, broken, checked, log) ==
    CASE x.op \in {"Add", "Sub", "Slt", "Sltu", "Mult", "Multu", "Div", "Divu"} ->
            ExecuteRegisters(x, self, input, output, checked, log,
                             self.registers[x.s], self.registers[x.t])
      [] x.op \in {"Lw", "Sw", "Beq", "Bne"} ->
            ExecuteImmediate(x, self, input, output, broken, checked, log,
                             self.registers[x.s], self.registers[x.t], SignExt16(x.i.val))
      [] x.op = "Mfhi" -> Done(SetRegister(self, x.d, self.hi), input, output, log)
      [] x.op = "Mflo" -> Done(SetRegister(self, x.d, self.lo), input, output, log)
      [] x.op = "Lis" ->
            ExecLis(x.d, self, output, checked, log, read(self, input, broken, self.pc))
      [] x.op = "Jr" -> Done([self EXCEPT !.pc = self.registers[x.s]], input, output, log)
      [] x.op = "Jalr" ->
            Done([self EXCEPT !.registers[31] = self.pc, !.pc = self.registers[x.s]],
                 input, output, log)
      [] OTHER -> Panic("Unexpected instruction")

\* step with the test for the return address made after the fetch
StepFetchedFirst(self, input, output, broken, checked, got) ==
    IF ~IsOk(got) THEN got
    ELSE IF self.pc = SENTINEL THEN Stepped(FALSE, self, input, output, <<>>)
    ELSE execute(disassemble(got.ok.val),
                 [self EXCEPT !.pc = wrapping_add(self.pc, <<0, 4>>)],
                 got.ok.input, output, broken, checked, <<ReadEvent(self.pc, got.ok)>>)
step_fetch_first(self, input, output, broken, checked) ==
    StepFetchedFirst(self, input, output, broken, checked,
                     read(self, input, broken, self.pc))

\* step once self.read(self.pc) returned got
Fetched(self, input, output, broken, checked, got) ==
    IF ~IsOk(got) THEN got
    ELSE IF checked /\ AddOverflowsU32(self.pc, <<0, 4>>)
    THEN Panic("attempt to add with overflow")
    ELSE execute(disassemble(got.ok.val),
                 [self EXCEPT !.pc = wrapping_add(self.pc, <<0, 4>>)],
                 got.ok.input, output, broken, checked, <<ReadEvent(self.pc, got.ok)>>)
\* MipsEmulator::step
step(self, input, output, broken, checked) ==
    IF self.pc = SENTINEL THEN Stepped(FALSE, self, input, output, <<>>)
    ELSE Fetched(self, input, output, broken, checked, read(self, input, broken, self.pc))

(***************************************************************************)
(* The source files and the inputs of the runs                             *)
(***************************************************************************)
\* (an empty line)
L_blank ==
    <<>>
\* top: beq $1, $2, done
L_top_beq_done ==
    <<"t", "o", "p", ":", " ", "b", "e", "q", " ", "$", "1", ",", " ", "$", "2", ",",
      " ", "d", "o", "n", "e">>
\* bne $1, $0, top
L_bne_top ==
    <<"b", "n", "e", " ", "$", "1", ",", " ", "$", "0", ",", " ", "t", "o", "p">>
\* done: jr $31
L_done_jr ==
    <<"d", "o", "n", "e", ":", " ", "j", "r", " ", "$", "3", "1">>
\* mid: ; note
L_mid ==
    <<"m", "i", "d", ":", " ", ";", " ", "n", "o", "t", "e">>
\* dup: dup: jr $31
L_dup_dup_jr ==
    <<"d", "u", "p", ":", " ", "d", "u", "p", ":", " ", "j", "r", " ", "$", "3", "1">>
\* beq $0, $0, end
L_beq_end ==
    <<"b", "e", "q", " ", "$", "0", ",", " ", "$", "0", ",", " ", "e", "n", "d">>
\* end: a: .word done
L_end_a_word_done ==
    <<"e", "n", "d", ":", " ", "a", ":", " ", ".", "w", "o", "r", "d", " ", "d", "o",
      "n", "e">>
\* add $32, $1, $2
L_add_32 ==
    <<"a", "d", "d", " ", "$", "3", "2", ",", " ", "$", "1", ",", " ", "$", "2">>
\* lw $3, a($0)
L_lw_a ==
    <<"l", "w", " ", "$", "3", ",", " ", "a", "(", "$", "0", ")">>
\* sub $3, $x, $2
L_sub_x ==
    <<"s", "u", "b", " ", "$", "3", ",", " ", "$", "x", ",", " ", "$", "2">>
\* jr $31
L_jr ==
    <<"j", "r", " ", "$", "3", "1">>
\* add $3, $1, $2
L_add ==
    <<"a", "d", "d", " ", "$", "3", ",", " ", "$", "1", ",", " ", "$", "2">>
\* lis $4
L_lis4 ==
    <<"l", "i", "s", " ", "$", "4">>
\* .word 0xffff0004
L_word_in ==
    <<".", "w", "o", "r", "d", " ", "0", "x", "f", "f", "f", "f", "0", "0", "0", "4">>
\* lw $3, 0($4)
L_lw_3_4 ==
    <<"l", "w", " ", "$", "3", ",", " ", "0", "(", "$", "4", ")">>
\* sw $3, 8($4)
L_sw_3_4 ==
    <<"s", "w", " ", "$", "3", ",", " ", "8", "(", "$", "4", ")">>
\* sw $1, 0($2)
L_sw_1_2 ==
    <<"s", "w", " ", "$", "1", ",", " ", "0", "(", "$", "2", ")">>
\* lw $3, -4($2)
L_lw_3_2 ==
    <<"l", "w", " ", "$", "3", ",", " ", "-", "4", "(", "$", "2", ")">>
\* mult $1, $2
L_mult ==
    <<"m", "u", "l", "t", " ", "$", "1", ",", " ", "$", "2">>
\* div $1, $2
L_div ==
    <<"d", "i", "v", " ", "$", "1", ",", " ", "$", "2">>
\* mfhi $3
L_mfhi ==
    <<"m", "f", "h", "i", " ", "$", "3">>
\* mflo $4
L_mflo ==
    <<"m", "f", "l", "o", " ", "$", "4">>
\* multu $1, $2
L_multu ==
    <<"m", "u", "l", "t", "u", " ", "$", "1", ",", " ", "$", "2">>
\* divu $1, $2
L_divu ==
    <<"d", "i", "v", "u", " ", "$", "1", ",", " ", "$", "2">>
\* loop: bne $1, $2, loop
L_loop_bne ==
    <<"l", "o", "o", "p", ":", " ", "b", "n", "e", " ", "$", "1", ",", " ", "$", "2",
      ",", " ", "l", "o", "o", "p">>
\* beq $1, $2, skip
L_beq_skip ==
    <<"b", "e", "q", " ", "$", "1", ",", " ", "$", "2", ",", " ", "s", "k", "i", "p">>
\* skip: jr $31
L_skip_jr ==
    <<"s", "k", "i", "p", ":", " ", "j", "r", " ", "$", "3", "1">>
\* sltu $3, $1, $2
L_sltu ==
    <<"s", "l", "t", "u", " ", "$", "3", ",", " ", "$", "1", ",", " ", "$", "2">>
\* slt $4, $1, $2
L_slt ==
    <<"s", "l", "t", " ", "$", "4", ",", " ", "$", "1", ",", " ", "$", "2">>
\* jalr $31
L_jalr ==
    <<"j", "a", "l", "r", " ", "$", "3", "1">>
\* sw $1, 4($2)
L_sw_1_2_4 ==
    <<"s", "w", " ", "$", "1", ",", " ", "4", "(", "$", "2", ")">>
\* 0
T_0 ==
    <<"0">>
\* 5
T_5 ==
    <<"5">>
\* 7
T_7 ==
    <<"7">>
\* -1
T_minus1 ==
    <<"-", "1">>
\* -2147483648
T_min ==
    <<"-", "2", "1", "4", "7", "4", "8", "3", "6", "4", "8">>
\* 4294901768, that is 0xffff0008
T_in_plus4 ==
    <<"4", "2", "9", "4", "9", "0", "1", "7", "6", "8">>
\* 4294901772, that is 0xffff000c
T_out ==
    <<"4", "2", "9", "4", "9", "0", "1", "7", "7", "2">>
\* 2147483647, that is 0x7fffffff
T_max ==
    <<"2", "1", "4", "7", "4", "8", "3", "6", "4", "7">>
\* x
T_x ==
    <<"x">>

\* the lines the assembled files are made of
AsmPool ==
    {L_blank, L_top_beq_done, L_bne_top, L_done_jr, L_mid, L_dup_dup_jr, L_beq_end,
     L_end_a_word_done, L_add_32, L_lw_a, L_sub_x}
\* the longest file made of the lines of AsmPool
MaxLines == 3
AsmSources == UNION {[1..n -> AsmPool] : n \in 1..MaxLines}

\* the program that copies a byte from the input port to the output port
EchoSource == <<L_lis4, L_word_in, L_lw_3_4, L_sw_3_4, L_jr>>
\* the files that are run on every input
EmuSources ==
    { <<L_jr>>,
      <<L_add, L_jr>>,
      EchoSource,
      <<L_sw_1_2, L_jr>>,
      <<L_sw_1_2_4, L_jr>>,
      <<L_lw_3_2, L_jr>>,
      <<L_mult, L_mfhi, L_div, L_mflo, L_jr>>,
      <<L_multu, L_mfhi, L_divu, L_mflo, L_jr>>,
      <<L_loop_bne, L_jr>>,
      <<L_beq_skip, L_add, L_skip_jr>>,
      <<L_sltu, L_slt, L_jalr>> }

\* what is typed at the two prompts, and what is left on the standard input then
Typed1 == {T_0, T_5, T_minus1, T_min, T_x}
Typed2 == {T_0, T_7, T_minus1, T_max, T_in_plus4, T_out}
StdinInputs == {<<>>, <<65>>, <<65, 10>>}

\* the most calls of step that execute an instruction in one run
MaxSteps == 6

\* the register numbers, immediates and words of the instructions that are encoded
\* and decoded
CodecRegisters == {0, 1, 2, 15, 16, 31}
CodecImmediates == {Literal(<<0, 0>>), Literal(<<0, 1>>), Literal(<<0, 32767>>),
                    Literal(<<0, 32768>>), Literal(<<0, 65535>>)}
CodecWords ==
    {Literal(<<0, 0>>), Literal(<<0, 7>>), Literal(<<0, 32>>), Literal(<<0, 63>>),
     Literal(<<992, 8>>), Literal(<<1024, 0>>), Literal(<<4096, 1>>), Literal(<<5120, 0>>),
     Literal(<<35840, 0>>), Literal(<<44032, 4>>), Literal(<<51966, 47806>>),
     Literal(<<65535, 65535>>)}
CodecInstructions ==
    {Add(d, s, t) : d \in CodecRegisters, s \in CodecRegisters, t \in CodecRegisters}
    \cup {Sub(d, s, t) : d \in CodecRegisters, s \in CodecRegisters, t \in CodecRegisters}
    \cup {Slt(d, s, t) : d \in CodecRegisters, s \in CodecRegisters, t \in CodecRegisters}
    \cup {Sltu(d, s, t) : d \in CodecRegisters, s \in CodecRegisters, t \in CodecRegisters}
    \cup {Mult(s, t) : s \in CodecRegisters, t \in CodecRegisters}
    \cup {Multu(s, t) : s \in CodecRegisters, t \in CodecRegisters}
    \cup {Div(s, t) : s \in CodecRegisters, t \in CodecRegisters}
    \cup {Divu(s, t) : s \in CodecRegisters, t \in CodecRegisters}
    \cup {Mfhi(d) : d \in CodecRegisters}
    \cup {Mflo(d) : d \in CodecRegisters}
    \cup {Lis(d) : d \in CodecRegisters}
    \cup {Lw(t, i, s) : t \in CodecRegisters, i \in CodecImmediates, s \in CodecRegisters}
    \cup {Sw(t, i, s) : t \in CodecRegisters, i \in CodecImmediates, s \in CodecRegisters}
    \cup {Beq(s, t, i) : s \in CodecRegisters, t \in CodecRegisters, i \in CodecImmediates}
    \cup {Bne(s, t, i) : s \in CodecRegisters, t \in CodecRegisters, i \in CodecImmediates}
    \cup {Jr(s) : s \in CodecRegisters}
    \cup {Jalr(s) : s \in CodecRegisters}
    \cup {Word(i) : i \in CodecWords}

\* the operand tokens that are classified: the strings of 1..MaxTokenLen characters of
\* TokenAlphabet, and two longer names
TokenAlphabet == {"0", "1", "x", "a", "d", "e", "n", "-"}
MaxTokenLen == 3
OperandTokens ==
    UNION {[1..n -> TokenAlphabet] : n \in 1..MaxTokenLen}
    \cup {<<"a", "b", "c", "d">>, <<"0", "x", "C", "A", "F", "E">>}

(***************************************************************************)
(* The state                                                               *)
(***************************************************************************)
VARIABLES
    source,          \* the lines of the file named on the command line
    typed_r1,        \* the lines typed at the two prompts of emulate_twoints
    typed_r2,
    stdin0,          \* the bytes on the standard input after these two lines
    stdin_broken,    \* reading the standard input fails once the emulator runs
    overflow_checks, \* the build panics on integer overflow (debug profile)
    phase,           \* how far main has come
    panic,           \* the message of the panic that aborted the process, "" if none
    lines,           \* main: lines, after parse_lines
    label_locations, \* main: label_locations
    resolved,        \* main: lines, after replace_labels
    machine_code,    \* main: machine_code
    emulator,        \* emulate_twoints: emulator
    stdin,           \* the bytes not yet read from the standard input
    stdout,          \* the bytes the emulated program wrote to the standard output
    steps,           \* the number of calls of step that returned true
    accesses,        \* the memory accesses of the last call of step
    codec,           \* an instruction, its encoding and the decoding of that
    operand          \* an operand token and the Value parse_value makes of it

vars == <<source, typed_r1, typed_r2, stdin0, stdin_broken, overflow_checks, phase, panic,
          lines, label_locations, resolved, machine_code, emulator, stdin, stdout, steps,
          accesses, codec, operand>>
mainVars == <<phase, panic, lines, label_locations, resolved, machine_code, emulator,
              stdin, stdout, steps, accesses>>
inputVars == <<source, typed_r1, typed_r2, stdin0, stdin_broken, overflow_checks>>

NoEmulator == MipsEmulator_new(<<>>)
CodecIdle == [stage |-> "idle", x |-> Noop, word |-> Zero32, back |-> Noop]
OperandIdle == [stage |-> "idle", token |-> <<>>, bits |-> 16, value |-> Ok(Label(<<>>))]

\* main before its first line
MainStart ==
    /\ phase = "start"
    /\ panic = ""
    /\ lines = <<>>
    /\ label_locations = EmptyMap
    /\ resolved = <<>>
    /\ machine_code = <<>>
    /\ emulator = NoEmulator
    /\ stdin = stdin0
    /\ stdout = <<>>
    /\ steps = 0
    /\ accesses = <<>>

Init ==
    /\ \/ /\ source \in EmuSources
          /\ typed_r1 \in Typed1
          /\ typed_r2 \in Typed2
          /\ stdin0 \in StdinInputs
          /\ stdin_broken \in BOOLEAN
       \/ /\ source \in AsmSources
          /\ typed_r1 = T_5
          /\ typed_r2 = T_7
          /\ stdin0 = <<>>
          /\ stdin_broken = FALSE
    /\ overflow_checks \in BOOLEAN
    /\ MainStart
    /\ codec = CodecIdle
    /\ operand = OperandIdle

(***************************************************************************)
(* main, one action for each of its calls                                  *)
(***************************************************************************)
\* let lines = parse_lines(lines);
ParseLines ==
    /\ phase = "start" /\ panic = ""
    /\ \E r \in {parse_lines(source)} :
          IF IsOk(r)
          THEN lines' = r.ok /\ phase' = "parsed" /\ panic' = panic
          ELSE panic' = r.panic /\ UNCHANGED <<lines, phase>>
    /\ UNCHANGED <<label_locations, resolved, machine_code, emulator, stdin, stdout, steps,
                   accesses, inputVars, codec, operand>>

\* let label_locations = extract_label_locations(&lines);
ExtractLabelLocations ==
    /\ phase = "parsed" /\ panic = ""
    /\ \E r \in {extract_label_locations(lines)} :
          IF IsOk(r)
          THEN label_locations' = r.ok /\ phase' = "labelled" /\ panic' = panic
          ELSE panic' = r.panic /\ UNCHANGED <<label_locations, phase>>
    /\ UNCHANGED <<lines, resolved, machine_code, emulator, stdin, stdout, steps, accesses,
                   inputVars, codec, operand>>

\* let lines = replace_labels(&lines, &label_locations);
ReplaceLabels ==
    /\ phase = "labelled" /\ panic = ""
    /\ \E r \in {replace_labels(lines, label_locations)} :
          IF IsOk(r)
          THEN resolved' = r.ok /\ phase' = "replaced" /\ panic' = panic
          ELSE panic' = r.panic /\ UNCHANGED <<resolved, phase>>
    /\ UNCHANGED <<lines, label_locations, machine_code, emulator, stdin, stdout, steps,
                   accesses, inputVars, codec, operand>>

\* let machine_code = assemble(&lines);
Assemble ==
    /\ phase = "replaced" /\ panic = ""
    /\ \E r \in {assemble(resolved)} :
          IF IsOk(r)
          THEN machine_code' = r.ok /\ phase' = "assembled" /\ panic' = panic
          ELSE panic' = r.panic /\ UNCHANGED <<machine_code, phase>>
    /\ UNCHANGED <<lines, label_locations, resolved, emulator, stdin, stdout, steps,
                   accesses, inputVars, codec, operand>>

\* input.parse::<u32>(), else input.parse::<i32>() as u32, else None
ParseInt(input, r) == IF IsOk(r) THEN r ELSE i32_from_str(input)
\* read_int on the line that was typed
read_int(typed) == ParseInt(Trim(typed), u32_from_str_radix(Trim(typed), 10))

\* .expect("Could not parse integer") on the two numbers, the first one first
ExpectInts(emu, r1, r2) ==
    IF ~IsOk(r1) \/ ~IsOk(r2) THEN Panic("Could not parse integer")
    ELSE Ok([emu EXCEPT !.registers = [r \in 0..31 |->
                IF r = 1 THEN r1.ok ELSE IF r = 2 THEN r2.ok
                ELSE IF r \in 3..29 THEN FILL ELSE emu.registers[r]]])
\* emulate_twoints up to emulator.run(): the emulator is made, registers 1 and 2 are set
\* to what was typed and registers 3..29 to 0xfffffff6
emulate_twoints(code, typed1, typed2) ==
    ExpectInts(MipsEmulator_new(code), read_int(typed1), read_int(typed2))

EmulateTwoints ==
    /\ phase = "assembled" /\ panic = ""
    /\ \E r \in {emulate_twoints(machine_code, typed_r1, typed_r2)} :
          IF IsOk(r)
          THEN emulator' = r.ok /\ phase' = "running" /\ panic' = panic
          ELSE panic' = r.panic /\ UNCHANGED <<emulator, phase>>
    /\ UNCHANGED <<lines, label_locations, resolved, machine_code, stdin, stdout, steps,
                   accesses, inputVars, codec, operand>>

\* one turn of the loop of MipsEmulator::run: while self.step() {}
Step ==
    /\ phase = "running" /\ panic = ""
    /\ steps < MaxSteps \/ emulator.pc = SENTINEL
    /\ \E r \in {step(emulator, stdin, stdout, stdin_broken, overflow_checks)} :
          IF IsOk(r)
          THEN /\ emulator' = r.ok.self
               /\ stdin' = r.ok.input
               /\ stdout' = r.ok.output
               /\ accesses' = r.ok.log
               /\ phase' = IF r.ok.ret THEN "running" ELSE "halted"
               /\ steps' = IF r.ok.ret THEN steps + 1 ELSE steps
               /\ panic' = panic
          ELSE /\ panic' = r.panic
               /\ UNCHANGED <<phase, emulator, stdin, stdout, steps, accesses>>
    /\ UNCHANGED <<lines, label_locations, resolved, machine_code, inputVars, codec, operand>>

Next ==
    \/ ParseLines
    \/ ExtractLabelLocations
    \/ ReplaceLabels
    \/ Assemble
    \/ EmulateTwoints
    \/ Step

Spec == Init /\ [][Next]_vars

(***************************************************************************)
(* Instruction::assemble and Instruction::disassemble on their own         *)
(***************************************************************************)
\* main is not run
MainIdle ==
    /\ source = <<>>
    /\ typed_r1 = T_0
    /\ typed_r2 = T_0
    /\ stdin0 = <<>>
    /\ stdin_broken = FALSE
    /\ overflow_checks = FALSE
    /\ MainStart

InitCodec ==
    /\ MainIdle
    /\ codec \in [stage : {"start"}, x : CodecInstructions, word : {Zero32}, back : {Noop}]
    /\ operand = OperandIdle

\* codec.x.assemble()
CodecAssemble ==
    /\ codec.stage = "start"
    /\ \E r \in {Instruction_assemble(codec.x)} :
          /\ IsOk(r)
          /\ codec' = [codec EXCEPT !.stage = "encoded", !.word = r.ok]
    /\ UNCHANGED <<mainVars, inputVars, operand>>

\* Instruction::disassemble(codec.word)
CodecDisassemble ==
    /\ codec.stage = "encoded"
    /\ codec' = [codec EXCEPT !.stage = "decoded", !.back = disassemble(codec.word)]
    /\ UNCHANGED <<mainVars, inputVars, operand>>

NextCodec ==
    \/ CodecAssemble
    \/ CodecDisassemble

SpecCodec == InitCodec /\ [][NextCodec]_vars

(***************************************************************************)
(* parse_value on its own                                                  *)
(***************************************************************************)
InitOperand ==
    /\ MainIdle
    /\ codec = CodecIdle
    /\ operand \in [stage : {"start"}, token : OperandTokens, bits : {16, 32},
                    value : {Ok(Label(<<>>))}]

\* parse_value(operand.token, operand.bits)
ParseValue ==
    /\ operand.stage = "start"
    /\ operand' = [operand EXCEPT !.stage = "parsed",
                                  !.value = parse_value(operand.token, operand.bits)]
    /\ UNCHANGED <<mainVars, inputVars, codec>>

NextOperand == ParseValue

SpecOperand == InitOperand /\ [][NextOperand]_vars


(***************************************************************************)
(* The properties                                                          *)
(***************************************************************************)
\* the words that Instruction::disassemble reads as an instruction of the table
IsInstructionPattern(word) ==
    \/ Shr32(word, 26)[2] \in {35, 43, 4, 5}
    \/ /\ Shr32(word, 26)[2] = 0
       /\ BitAnd(word[2], 63) \in {32, 34, 24, 25, 26, 27, 16, 18, 20, 42, 43, 8, 9}

\* C1, as stated: every instruction of the table but noop, with register numbers in
\* 0..31 and 16-bit immediates, and every .word n, is what disassemble makes of its
\* encoding.
C1_RoundTrip ==
    codec.stage = "decoded" => codec.back = codec.x

\* C1, amended: disassemble(assemble(x)) = x for each of the 17 instructions with
\* register numbers in 0..31 and 16-bit immediates, and for .word n exactly when n is
\* not the bit pattern of an instruction (its upper six bits are not those of lw, sw,
\* beq, bne, and they are not zero with the lower six bits those of a register
\* instruction); a .word n with such a pattern is decoded as that instruction.
C1_RoundTripButPatterns ==
    codec.stage = "decoded" =>
        IF codec.x.op = "Word" /\ IsInstructionPattern(codec.x.i.val)
        THEN codec.back.op # "Word"
        ELSE codec.back = codec.x

\* C1: a load with the largest register numbers and a negative offset went through
\* the encoder and the decoder
C1_Witness ==
    /\ codec.stage = "decoded"
    /\ codec.x = Lw(31, Literal(<<0, 32768>>), 16)
    /\ codec.word = <<36383, 32768>>

\* an access of the last step that read the input port
InputReads == {k \in DOMAIN accesses : accesses[k].op = "read" /\ accesses[k].addr = MMIO_IN}

\* C2, as stated: a read of 0xffff0004 with a byte on the standard input consumes
\* exactly that byte and returns it zero-extended, and the program that loads from
\* 0xffff0004 and stores to 0xffff000c turns the input byte 0x41 into the output byte
\* 0x41.
C2_MmioReadReturnsByte ==
    /\ \A k \in InputReads :
          Len(accesses[k].taken) = 1 => accesses[k].val = <<0, accesses[k].taken[1]>>
    /\ (source = EchoSource /\ stdin0 = <<65>> /\ ~stdin_broken /\ phase = "halted")
          => stdout = <<65>>

\* C3, as stated: a read of 0xffff0004 that gets no byte, the standard input being
\* exhausted or failing, returns 0x000000ff, and the run goes on.
C3_EofYieldsFF ==
    \A k \in InputReads :
        accesses[k].taken = <<>> => (accesses[k].val = <<0, 255>> /\ panic = "")

\* the number of lines before line j that hold an instruction
NonNoopBefore(j) == Cardinality({k \in 1..(j - 1) : lines[k].instruction # Noop})
\* main has produced the machine code
Produced == phase \in {"assembled", "running", "halted"}
\* the lines that hold a beq or a bne and no comment
Branches ==
    {j \in 1..Len(lines) : lines[j].instruction.op \in {"Beq", "Bne"}
                           /\ Find(lines[j].text, ";") = Len(lines[j].text)}
\* the operand of the branch of line j as it is written: the last token of the line
WrittenOperand(j) == Tokens(lines[j].text)[Len(Tokens(lines[j].text))]
\* the lines that hold a beq or a bne whose operand is written as the name of a label
\* of the file
BranchesToLabels == {j \in Branches : WrittenOperand(j) \in DOMAIN label_locations}
\* the lines that hold a beq or a bne whose operand parse_value made a Value::Label
LabelBranches == {j \in Branches : lines[j].instruction.i.tag = "Label"}
\* the byte address a name is bound to
AddressOf(name) == ToNat(label_locations[name])
\* ((A - (B + 4)) / 4) mod 2^16 for the branch of line j and the target address A
OffsetLaw(j, A) == ((A - (4 * NonNoopBefore(j) + 4)) \div 4) % H16

\* C4, as stated: for every beq or bne whose operand is a label that resolves to the
\* byte address A, the branch being at the byte address B, the lower 16 bits of the
\* encoded word are ((A - (B + 4)) / 4) mod 2^16, whether the target is ahead of the
\* branch or not.
C4_BranchOffsetLaw ==
    Produced =>
        \A j \in BranchesToLabels :
            machine_code[NonNoopBefore(j) + 1][2] = OffsetLaw(j, AddressOf(WrittenOperand(j)))

\* C4 for the operands that parse_value keeps as labels: the law holds of them,
\* forward and backward.
C4_BranchOffsetLawOfKeptLabels ==
    Produced =>
        \A j \in LabelBranches :
            machine_code[NonNoopBefore(j) + 1][2]
                = OffsetLaw(j, AddressOf(lines[j].instruction.i.name))

\* C4: a file with a forward branch and a backward branch is assembled
C4_Witness ==
    /\ phase = "assembled"
    /\ \E j \in LabelBranches :
          AddressOf(lines[j].instruction.i.name) > 4 * NonNoopBefore(j)
    /\ \E j \in LabelBranches :
          AddressOf(lines[j].instruction.i.name) <= 4 * NonNoopBefore(j)

\* a label without its colon
NameOf(label) == SubSeq(label, 1, Len(label) - 1)
\* the register numbers of an instruction
RegisterFields(x) == {x[f] : f \in DOMAIN x \cap {"d", "s", "t"}}

\* C5: pass 1 binds every label of line j to 4 * (the number of lines before j that
\* hold an instruction); the k-th such line (from 0) is the k-th line kept and the
\* k-th word emitted, which the emulator loads at word key k; the other lines give no
\* word.
C5_AddressingInvariant ==
    /\ phase \in {"labelled", "replaced", "assembled", "running", "halted"} =>
          \A j \in 1..Len(lines) : \A n \in 1..Len(lines[j].labels) :
              label_locations[NameOf(lines[j].labels[n])] = Nat32(4 * NonNoopBefore(j))
    /\ Produced =>
          /\ Len(machine_code) = NonNoopBefore(Len(lines) + 1)
          /\ Len(resolved) = Len(machine_code)
          /\ \A j \in 1..Len(lines) :
                lines[j].instruction # Noop =>
                   /\ resolved[NonNoopBefore(j) + 1].text = lines[j].text
                   /\ (/\ lines[j].instruction.op # "Word"
                       /\ RegisterFields(lines[j].instruction) \subseteq 0..31)
                         => disassemble(machine_code[NonNoopBefore(j) + 1]).op
                               = lines[j].instruction.op
    /\ (phase = "running" /\ steps = 0) =>
          emulator.memory = [k \in 0..(Len(machine_code) - 1) |-> machine_code[k + 1]]

\* C5: a file whose labelled last line follows an instruction and a line without one
\* is loaded
C5_Witness ==
    /\ phase = "running" /\ steps = 0
    /\ Len(machine_code) >= 2
    /\ \E j \in 1..Len(lines) :
          /\ lines[j].labels # <<>>
          /\ NonNoopBefore(j) > 0
          /\ \E k \in 1..(j - 1) : lines[k].instruction = Noop

IsDecimalDigits(str) == str # <<>> /\ \A k \in 1..Len(str) : IsDigit(str[k])
IsHexDigits(str) == str # <<>> /\ \A k \in 1..Len(str) : ToDigit(str[k], 16) >= 0
\* an unsigned decimal, a signed decimal, or a hexadecimal number with the prefix 0x
IsNumber(token) ==
    \/ IsDecimalDigits(token)
    \/ Len(token) >= 2 /\ token[1] \in {"+", "-"} /\ IsDecimalDigits(Tail(token))
    \/ /\ Len(token) >= 3 /\ token[1] = "0" /\ token[2] = "x"
       /\ IsHexDigits(SubSeq(token, 3, Len(token)))

\* C6, as stated: an operand token is made a literal only if it is an unsigned
\* decimal, a signed decimal or a hexadecimal number with the prefix 0x, and every
\* other token is kept as a reference to the symbol of that name.
C6_OperandClassification ==
    operand.stage = "parsed" =>
        /\ IsOk(operand.value)
        /\ (operand.value.ok.tag = "Literal") => IsNumber(operand.token)
        /\ ~IsNumber(operand.token) => operand.value.ok = Label(operand.token)

\* the definitions of labels: <<j, n>> is the n-th label of line j
LabelOccurrences ==
    UNION {{<<j, n>> : n \in 1..Len(lines[j].labels)} : j \in 1..Len(lines)}
LabelAt(a) == lines[a[1]].labels[a[2]]
HasDuplicate == \E a, b \in LabelOccurrences : a # b /\ LabelAt(a) = LabelAt(b)

\* C7: when a name is defined twice, on two lines or twice on a line, main panics in
\* extract_label_locations, with nothing substituted, encoded or run, and no machine
\* code; when extract_label_locations returns, each name that is defined is defined
\* once and is a key of the map.
C7_DuplicateLabelFatal ==
    /\ []((phase # "start" /\ HasDuplicate) =>
            /\ phase = "parsed"
            /\ panic \in {"", "Duplicate label"}
            /\ label_locations = EmptyMap /\ resolved = <<>> /\ machine_code = <<>>
            /\ emulator = NoEmulator /\ steps = 0 /\ stdout = <<>>)
    /\ [][(phase = "parsed" /\ HasDuplicate) => panic' = "Duplicate label"]_vars
    /\ [](phase \in {"labelled", "replaced", "assembled", "running", "halted"} =>
            /\ ~HasDuplicate
            /\ DOMAIN label_locations = {NameOf(LabelAt(a)) : a \in LabelOccurrences}
            /\ Cardinality(DOMAIN label_locations) = Cardinality(LabelOccurrences))

\* C7: main has panicked on a name defined on two lines
C7_Witness ==
    /\ phase = "parsed" /\ panic = "Duplicate label"
    /\ \E a, b \in LabelOccurrences : a[1] # b[1] /\ LabelAt(a) = LabelAt(b)

\* C8, as stated: a register operand that is not a number in 0..31 makes the parser
\* abort, so the register numbers of the parsed instructions are in 0..31 and the
\* words encode them in their own fields: decoding a word gives the instruction back.
C8_MalformedRegisterFatal ==
    /\ \A j \in 1..Len(lines) : RegisterFields(lines[j].instruction) \subseteq 0..31
    /\ Produced =>
          \A k \in 1..Len(resolved) :
              resolved[k].instruction.op # "Word" =>
                  disassemble(machine_code[k]) = resolved[k].instruction

\* the first word of the machine code is jr $31
StartsWithJr31 == Len(machine_code) >= 1 /\ machine_code[1] = <<992, 8>>

\* C9: step returns false exactly when the pc is 0x8123456c as it is called, and then
\* nothing is fetched and no register, hi, lo, pc or memory word changes; a program
\* whose first instruction is jr $31 starts with pc = 0 and register 31 = 0x8123456c,
\* and after the one instruction it executes the pc is 0x8123456c.
C9_Halt ==
    /\ [][(phase = "running" /\ phase' = "halted") =>
            /\ emulator.pc = SENTINEL
            /\ emulator' = emulator /\ stdin' = stdin /\ stdout' = stdout
            /\ steps' = steps /\ accesses' = <<>>]_vars
    /\ [][(phase = "running" /\ emulator.pc = SENTINEL) =>
            (phase' = "halted" /\ panic' = "")]_vars
    /\ []((phase = "running" /\ steps = 0 /\ StartsWithJr31) =>
            (emulator.pc = Zero32 /\ emulator.registers[31] = SENTINEL))
    /\ []((phase \in {"running", "halted"} /\ steps >= 1 /\ StartsWithJr31) =>
            (steps = 1 /\ emulator.pc = SENTINEL))

\* C9: a program that starts with jr $31 has halted after one instruction
C9_Witness ==
    phase = "halted" /\ steps = 1 /\ StartsWithJr31 /\ emulator.pc = SENTINEL

\* the writes of the step that is taken
Writes == {k \in DOMAIN accesses' : accesses'[k].op = "write"}
\* addr / 4
KeyOf(addr) == addr[1] * 16384 + addr[2] \div 4

\* C10: a step that writes v to 0xffff000c appends the one byte v & 0xff to the
\* standard output and leaves the memory map as it is; a step that writes v to
\* another address a writes nothing to the standard output and changes the memory map
\* at the key a / 4 only, which then holds v; a step that writes nothing changes
\* neither.
C10_MmioWrite ==
    [][(phase = "running" /\ steps' = steps + 1) =>
        /\ \A k \in Writes :
              IF accesses'[k].addr = MMIO_OUT
              THEN /\ stdout' = Append(stdout, accesses'[k].val[2] % 256)
                   /\ emulator'.memory = emulator.memory
              ELSE /\ stdout' = stdout
                   /\ DOMAIN emulator'.memory
                         = DOMAIN emulator.memory \cup {KeyOf(accesses'[k].addr)}
                   /\ emulator'.memory[KeyOf(accesses'[k].addr)] = accesses'[k].val
                   /\ \A key \in DOMAIN emulator.memory \ {KeyOf(accesses'[k].addr)} :
                         emulator'.memory[key] = emulator.memory[key]
        /\ Writes = {} => (stdout' = stdout /\ emulator'.memory = emulator.memory)]_vars

\* C10: a word with bits above the low byte was written to 0xffff000c, and its low
\* byte is the standard output
C10_Witness ==
    /\ phase = "running"
    /\ \E k \in DOMAIN accesses :
          /\ accesses[k].op = "write" /\ accesses[k].addr = MMIO_OUT
          /\ accesses[k].val = <<65535, 65535>>
          /\ stdout = <<255>>
          /\ KeyOf(MMIO_OUT) \notin DOMAIN emulator.memory

\* the instruction that the next call of step executes, Noop when it executes none
Current ==
    IF /\ phase = "running" /\ panic = "" /\ steps < MaxSteps
       /\ emulator.pc \notin {SENTINEL, MMIO_IN}
       /\ WordKey(emulator.pc) \in DOMAIN emulator.memory
    THEN disassemble(emulator.memory[WordKey(emulator.pc)])
    ELSE Noop
\* the value of register r as the step begins
R(r) == emulator.registers[r]
\* a if the sign bit of b is set, else 0
IfNegative(b, a) == IF IsNeg(b) THEN a ELSE Zero32
\* the upper 32 bits of the product of a and b taken as i32, from those of the
\* product of a and b taken as u32
SignedHigh(a, b, high) ==
    wrapping_sub(wrapping_sub(high, IfNegative(a, b)), IfNegative(b, a))

\* C11, as stated: a step that executes mult s, t leaves in hi the upper 32 bits and
\* in lo the lower 32 bits of the 64-bit product of R[s] and R[t] taken as signed
\* numbers, and changes no general register.
C11_MultSignedProduct ==
    [][(Current.op = "Mult" /\ steps' = steps + 1) =>
        /\ emulator'.hi = SignedHigh(R(Current.s), R(Current.t),
                                     MulU64(R(Current.s), R(Current.t))[1])
        /\ emulator'.lo = MulU64(R(Current.s), R(Current.t))[2]
        /\ emulator'.registers = emulator.registers]_vars

\* the panics of the arithmetic of a build
OverflowPanics ==
    {"attempt to add with overflow", "attempt to multiply with overflow",
     "attempt to divide with overflow"}
\* the step divides by zero
DividesByZero == Current.op \in {"Div", "Divu"} /\ R(Current.t) = Zero32
\* the step is div on 0x80000000 and 0xffffffff
DividesMinByMinusOne ==
    Current.op = "Div" /\ R(Current.s) = <<32768, 0>> /\ R(Current.t) = <<H16 - 1, H16 - 1>>

\* C12, as stated: a step whose divisor is not zero is not aborted by an overflow of
\* its arithmetic, of its effective address or of the pc: it leaves the wrapped
\* result; add and sub leave the wrapped sum and difference, and div on 0x80000000
\* and 0xffffffff completes with the wrapped quotient 0x80000000 and the remainder 0.
C12_OverflowDoesNotTrap ==
    [][(Current # Noop /\ ~DividesByZero) =>
        /\ panic' \notin OverflowPanics
        /\ Current.op = "Add" =>
              emulator'.registers[Current.d]
                  = wrapping_add(R(Current.s), R(Current.t))
        /\ Current.op = "Sub" =>
              emulator'.registers[Current.d]
                  = wrapping_sub(R(Current.s), R(Current.t))
        /\ DividesMinByMinusOne =>
              /\ steps' = steps + 1
              /\ emulator'.lo = <<32768, 0>>
              /\ emulator'.hi = Zero32]_vars

\* the byte address of the instruction of line j
AddressOfLine(j) == Nat32(4 * NonNoopBefore(j))
\* the next call of step executes the branch of line j as it was assembled
ExecutesBranch(j) ==
    /\ Current.op \in {"Beq", "Bne"}
    /\ emulator.pc = AddressOfLine(j)
    /\ emulator.memory[WordKey(emulator.pc)] = machine_code[NonNoopBefore(j) + 1]
    /\ RegisterFields(lines[j].instruction) \subseteq 0..31
\* the condition of the branch of line j holds
ConditionHolds(j) ==
    IF lines[j].instruction.op = "Beq"
    THEN R(lines[j].instruction.s) = R(lines[j].instruction.t)
    ELSE R(lines[j].instruction.s) # R(lines[j].instruction.t)
\* the step from the branch of line j, whose label is at the byte address A, leaves
\* the pc at A when the condition holds and past the branch when it does not, and
\* changes nothing else
BranchAgrees(j, A) ==
    /\ steps' = steps + 1
    /\ emulator'.pc = IF ConditionHolds(j) THEN A ELSE wrapping_add(AddressOfLine(j), <<0, 4>>)
    /\ emulator' = [emulator EXCEPT !.pc = emulator'.pc]

\* C13, as stated: in an assembled program, executing a beq or a bne at the byte
\* address B that names a label of address A, (A - (B+4)) / 4 fitting in 16 signed
\* bits, leaves the pc at A when the condition of the branch holds and at B + 4 when
\* it does not, and changes no register, hi, lo or memory word.
C13_BranchAgreement ==
    [][\A j \in BranchesToLabels :
          ExecutesBranch(j) => BranchAgrees(j, label_locations[WrittenOperand(j)])]_vars

\* C13 for the operands that parse_value keeps as labels: the assembler and the
\* interpreter agree on them.
C13_BranchAgreementOfKeptLabels ==
    [][\A j \in LabelBranches :
          ExecutesBranch(j) => BranchAgrees(j, label_locations[lines[j].instruction.i.name])]_vars

=============================================================================
